---- MODULE Spec2Model ----
(***************************************************************************)
(* State-machine model of users/serializers.py (simple-auth-api): the OTP  *)
(* send / verify serializers, the signup serializer with its atomic dual   *)
(* write, the login serializer and the password serializer.                *)
(*                                                                         *)
(* A verifyCode and a signup request are two steps each, is_valid() and    *)
(* save(), with the row they read kept in the request in between.          *)
(*                                                                         *)
(* Spec     : one verifyCode / signup request in flight at a time; the     *)
(*            single-step requests run between its two steps.              *)
(* SpecConc : up to MaxReqs verifyCode / signup requests in flight, their  *)
(*            steps interleaved in any order.                              *)
(***************************************************************************)
EXTENDS Integers, Sequences, FiniteSets, TLC

VARIABLES otps, users, now, last, reqs

vars == <<otps, users, now, last, reqs>>

(* ------------------------------ bounds -------------------------------- *)
MaxOtps == 2
MaxTime == 1
MaxReqs == 2

(* ----------------------------- python values --------------------------- *)
\* None and str values of nullable fields, kept apart so that str(None)
\* and the string "None" are different values with the same str().
PyNone == [t |-> "NoneType", v |-> ""]
PyStr(s) == [t |-> "str", v |-> s]
\* str(x)
str(x) == IF x.t = "NoneType" THEN "None" ELSE x.v

(* ------------------------------ inputs -------------------------------- *)
NumA == <<"0","1","0","-","1","2","3","4","-","5","6","7","8">>
NumB == <<"0","7","0","-","1","2","3","-","4","5","6","7">>
NumBadPrefix == <<"0","1","1","-","1","2","3","4","-","5","6","7","8">>
NumBadGroup == <<"0","1","0","-","1","2","-","5","6","7","8">>
\* 010-XXXX-5678 with XXXX the Arabic-Indic digits one to four; a character
\* outside ASCII is written as its code point
NumUnicode == <<"0","1","0","-","U+0661","U+0662","U+0663","U+0664","-",
                "5","6","7","8">>
ValidNumbers == {NumA, NumB}
Numbers == ValidNumbers \cup {NumUnicode, NumBadPrefix, NumBadGroup}

\* the secrets rows are issued with, and the codes requests submit
OtpCodes == {"111111", "222222"}
SubmittedCodes == OtpCodes \cup {"None"}

AuthTypes == {"EMAIL", "PHONE"}
\* the value an omitted auth_type field has in the request
Absent == "ABSENT"
\* auth_type = None as stored on the row
AuthNull == "NULL"
DefaultAuthType == "EMAIL"

Emails == {"a@x.io", "b@x.io"}
Passwords == {"pw1", "pw2"}
LoginTypes == {"email", "phone_number"}
DefaultLoginType == "email"

(* --------------------------- number pattern --------------------------- *)
\* \d of a str pattern: the decimal digits of Unicode (category Nd), every
\* one of the 660 characters in 66 runs of ten.  A character outside ASCII
\* is written as its code point.
Digits ==
    \* ASCII
    {"0","1","2","3","4","5","6","7","8","9"}
    \* Arabic-Indic
    \cup {"U+0660","U+0661","U+0662","U+0663","U+0664",
          "U+0665","U+0666","U+0667","U+0668","U+0669"}
    \* Extended Arabic-Indic
    \cup {"U+06F0","U+06F1","U+06F2","U+06F3","U+06F4",
          "U+06F5","U+06F6","U+06F7","U+06F8","U+06F9"}
    \* Nko
    \cup {"U+07C0","U+07C1","U+07C2","U+07C3","U+07C4",
          "U+07C5","U+07C6","U+07C7","U+07C8","U+07C9"}
    \* Devanagari
    \cup {"U+0966","U+0967","U+0968","U+0969","U+096A",
          "U+096B","U+096C","U+096D","U+096E","U+096F"}
    \* Bengali
    \cup {"U+09E6","U+09E7","U+09E8","U+09E9","U+09EA",
          "U+09EB","U+09EC","U+09ED","U+09EE","U+09EF"}
    \* Gurmukhi
    \cup {"U+0A66","U+0A67","U+0A68","U+0A69","U+0A6A",
          "U+0A6B","U+0A6C","U+0A6D","U+0A6E","U+0A6F"}
    \* Gujarati
    \cup {"U+0AE6","U+0AE7","U+0AE8","U+0AE9","U+0AEA",
          "U+0AEB","U+0AEC","U+0AED","U+0AEE","U+0AEF"}
    \* Oriya
    \cup {"U+0B66","U+0B67","U+0B68","U+0B69","U+0B6A",
          "U+0B6B","U+0B6C","U+0B6D","U+0B6E","U+0B6F"}
    \* Tamil
    \cup {"U+0BE6","U+0BE7","U+0BE8","U+0BE9","U+0BEA",
          "U+0BEB","U+0BEC","U+0BED","U+0BEE","U+0BEF"}
    \* Telugu
    \cup {"U+0C66","U+0C67","U+0C68","U+0C69","U+0C6A",
          "U+0C6B","U+0C6C","U+0C6D","U+0C6E","U+0C6F"}
    \* Kannada
    \cup {"U+0CE6","U+0CE7","U+0CE8","U+0CE9","U+0CEA",
          "U+0CEB","U+0CEC","U+0CED","U+0CEE","U+0CEF"}
    \* Malayalam
    \cup {"U+0D66","U+0D67","U+0D68","U+0D69","U+0D6A",
          "U+0D6B","U+0D6C","U+0D6D","U+0D6E","U+0D6F"}
    \* Sinhala Lith
    \cup {"U+0DE6","U+0DE7","U+0DE8","U+0DE9","U+0DEA",
          "U+0DEB","U+0DEC","U+0DED","U+0DEE","U+0DEF"}
    \* Thai
    \cup {"U+0E50","U+0E51","U+0E52","U+0E53","U+0E54",
          "U+0E55","U+0E56","U+0E57","U+0E58","U+0E59"}
    \* Lao
    \cup {"U+0ED0","U+0ED1","U+0ED2","U+0ED3","U+0ED4",
          "U+0ED5","U+0ED6","U+0ED7","U+0ED8","U+0ED9"}
    \* Tibetan
    \cup {"U+0F20","U+0F21","U+0F22","U+0F23","U+0F24",
          "U+0F25","U+0F26","U+0F27","U+0F28","U+0F29"}
    \* Myanmar
    \cup {"U+1040","U+1041","U+1042","U+1043","U+1044",
          "U+1045","U+1046","U+1047","U+1048","U+1049"}
    \* Myanmar Shan
    \cup {"U+1090","U+1091","U+1092","U+1093","U+1094",
          "U+1095","U+1096","U+1097","U+1098","U+1099"}
    \* Khmer
    \cup {"U+17E0","U+17E1","U+17E2","U+17E3","U+17E4",
          "U+17E5","U+17E6","U+17E7","U+17E8","U+17E9"}
    \* Mongolian
    \cup {"U+1810","U+1811","U+1812","U+1813","U+1814",
          "U+1815","U+1816","U+1817","U+1818","U+1819"}
    \* Limbu
    \cup {"U+1946","U+1947","U+1948","U+1949","U+194A",
          "U+194B","U+194C","U+194D","U+194E","U+194F"}
    \* New Tai Lue
    \cup {"U+19D0","U+19D1","U+19D2","U+19D3","U+19D4",
          "U+19D5","U+19D6","U+19D7","U+19D8","U+19D9"}
    \* Tai Tham Hora
    \cup {"U+1A80","U+1A81","U+1A82","U+1A83","U+1A84",
          "U+1A85","U+1A86","U+1A87","U+1A88","U+1A89"}
    \* Tai Tham Tham
    \cup {"U+1A90","U+1A91","U+1A92","U+1A93","U+1A94",
          "U+1A95","U+1A96","U+1A97","U+1A98","U+1A99"}
    \* Balinese
    \cup {"U+1B50","U+1B51","U+1B52","U+1B53","U+1B54",
          "U+1B55","U+1B56","U+1B57","U+1B58","U+1B59"}
    \* Sundanese
    \cup {"U+1BB0","U+1BB1","U+1BB2","U+1BB3","U+1BB4",
          "U+1BB5","U+1BB6","U+1BB7","U+1BB8","U+1BB9"}
    \* Lepcha
    \cup {"U+1C40","U+1C41","U+1C42","U+1C43","U+1C44",
          "U+1C45","U+1C46","U+1C47","U+1C48","U+1C49"}
    \* Ol Chiki
    \cup {"U+1C50","U+1C51","U+1C52","U+1C53","U+1C54",
          "U+1C55","U+1C56","U+1C57","U+1C58","U+1C59"}
    \* Vai
    \cup {"U+A620","U+A621","U+A622","U+A623","U+A624",
          "U+A625","U+A626","U+A627","U+A628","U+A629"}
    \* Saurashtra
    \cup {"U+A8D0","U+A8D1","U+A8D2","U+A8D3","U+A8D4",
          "U+A8D5","U+A8D6","U+A8D7","U+A8D8","U+A8D9"}
    \* Kayah Li
    \cup {"U+A900","U+A901","U+A902","U+A903","U+A904",
          "U+A905","U+A906","U+A907","U+A908","U+A909"}
    \* Javanese
    \cup {"U+A9D0","U+A9D1","U+A9D2","U+A9D3","U+A9D4",
          "U+A9D5","U+A9D6","U+A9D7","U+A9D8","U+A9D9"}
    \* Myanmar Tai Laing
    \cup {"U+A9F0","U+A9F1","U+A9F2","U+A9F3","U+A9F4",
          "U+A9F5","U+A9F6","U+A9F7","U+A9F8","U+A9F9"}
    \* Cham
    \cup {"U+AA50","U+AA51","U+AA52","U+AA53","U+AA54",
          "U+AA55","U+AA56","U+AA57","U+AA58","U+AA59"}
    \* Meetei Mayek
    \cup {"U+ABF0","U+ABF1","U+ABF2","U+ABF3","U+ABF4",
          "U+ABF5","U+ABF6","U+ABF7","U+ABF8","U+ABF9"}
    \* Fullwidth
    \cup {"U+FF10","U+FF11","U+FF12","U+FF13","U+FF14",
          "U+FF15","U+FF16","U+FF17","U+FF18","U+FF19"}
    \* Osmanya
    \cup {"U+104A0","U+104A1","U+104A2","U+104A3","U+104A4",
          "U+104A5","U+104A6","U+104A7","U+104A8","U+104A9"}
    \* Hanifi Rohingya
    \cup {"U+10D30","U+10D31","U+10D32","U+10D33","U+10D34",
          "U+10D35","U+10D36","U+10D37","U+10D38","U+10D39"}
    \* Brahmi
    \cup {"U+11066","U+11067","U+11068","U+11069","U+1106A",
          "U+1106B","U+1106C","U+1106D","U+1106E","U+1106F"}
    \* Sora Sompeng
    \cup {"U+110F0","U+110F1","U+110F2","U+110F3","U+110F4",
          "U+110F5","U+110F6","U+110F7","U+110F8","U+110F9"}
    \* Chakma
    \cup {"U+11136","U+11137","U+11138","U+11139","U+1113A",
          "U+1113B","U+1113C","U+1113D","U+1113E","U+1113F"}
    \* Sharada
    \cup {"U+111D0","U+111D1","U+111D2","U+111D3","U+111D4",
          "U+111D5","U+111D6","U+111D7","U+111D8","U+111D9"}
    \* Khudawadi
    \cup {"U+112F0","U+112F1","U+112F2","U+112F3","U+112F4",
          "U+112F5","U+112F6","U+112F7","U+112F8","U+112F9"}
    \* Newa
    \cup {"U+11450","U+11451","U+11452","U+11453","U+11454",
          "U+11455","U+11456","U+11457","U+11458","U+11459"}
    \* Tirhuta
    \cup {"U+114D0","U+114D1","U+114D2","U+114D3","U+114D4",
          "U+114D5","U+114D6","U+114D7","U+114D8","U+114D9"}
    \* Modi
    \cup {"U+11650","U+11651","U+11652","U+11653","U+11654",
          "U+11655","U+11656","U+11657","U+11658","U+11659"}
    \* Takri
    \cup {"U+116C0","U+116C1","U+116C2","U+116C3","U+116C4",
          "U+116C5","U+116C6","U+116C7","U+116C8","U+116C9"}
    \* Ahom
    \cup {"U+11730","U+11731","U+11732","U+11733","U+11734",
          "U+11735","U+11736","U+11737","U+11738","U+11739"}
    \* Warang Citi
    \cup {"U+118E0","U+118E1","U+118E2","U+118E3","U+118E4",
          "U+118E5","U+118E6","U+118E7","U+118E8","U+118E9"}
    \* Dives Akuru
    \cup {"U+11950","U+11951","U+11952","U+11953","U+11954",
          "U+11955","U+11956","U+11957","U+11958","U+11959"}
    \* Bhaiksuki
    \cup {"U+11C50","U+11C51","U+11C52","U+11C53","U+11C54",
          "U+11C55","U+11C56","U+11C57","U+11C58","U+11C59"}
    \* Masaram Gondi
    \cup {"U+11D50","U+11D51","U+11D52","U+11D53","U+11D54",
          "U+11D55","U+11D56","U+11D57","U+11D58","U+11D59"}
    \* Gunjala Gondi
    \cup {"U+11DA0","U+11DA1","U+11DA2","U+11DA3","U+11DA4",
          "U+11DA5","U+11DA6","U+11DA7","U+11DA8","U+11DA9"}
    \* Mro
    \cup {"U+16A60","U+16A61","U+16A62","U+16A63","U+16A64",
          "U+16A65","U+16A66","U+16A67","U+16A68","U+16A69"}
    \* Tangsa
    \cup {"U+16AC0","U+16AC1","U+16AC2","U+16AC3","U+16AC4",
          "U+16AC5","U+16AC6","U+16AC7","U+16AC8","U+16AC9"}
    \* Pahawh Hmong
    \cup {"U+16B50","U+16B51","U+16B52","U+16B53","U+16B54",
          "U+16B55","U+16B56","U+16B57","U+16B58","U+16B59"}
    \* Mathematical Bold
    \cup {"U+1D7CE","U+1D7CF","U+1D7D0","U+1D7D1","U+1D7D2",
          "U+1D7D3","U+1D7D4","U+1D7D5","U+1D7D6","U+1D7D7"}
    \* Mathematical Double-Struck
    \cup {"U+1D7D8","U+1D7D9","U+1D7DA","U+1D7DB","U+1D7DC",
          "U+1D7DD","U+1D7DE","U+1D7DF","U+1D7E0","U+1D7E1"}
    \* Mathematical Sans-Serif
    \cup {"U+1D7E2","U+1D7E3","U+1D7E4","U+1D7E5","U+1D7E6",
          "U+1D7E7","U+1D7E8","U+1D7E9","U+1D7EA","U+1D7EB"}
    \* Mathematical Sans-Serif Bold
    \cup {"U+1D7EC","U+1D7ED","U+1D7EE","U+1D7EF","U+1D7F0",
          "U+1D7F1","U+1D7F2","U+1D7F3","U+1D7F4","U+1D7F5"}
    \* Mathematical Monospace
    \cup {"U+1D7F6","U+1D7F7","U+1D7F8","U+1D7F9","U+1D7FA",
          "U+1D7FB","U+1D7FC","U+1D7FD","U+1D7FE","U+1D7FF"}
    \* Nyiakeng Puachue Hmong
    \cup {"U+1E140","U+1E141","U+1E142","U+1E143","U+1E144",
          "U+1E145","U+1E146","U+1E147","U+1E148","U+1E149"}
    \* Wancho
    \cup {"U+1E2F0","U+1E2F1","U+1E2F2","U+1E2F3","U+1E2F4",
          "U+1E2F5","U+1E2F6","U+1E2F7","U+1E2F8","U+1E2F9"}
    \* Adlam
    \cup {"U+1E950","U+1E951","U+1E952","U+1E953","U+1E954",
          "U+1E955","U+1E956","U+1E957","U+1E958","U+1E959"}
    \* Segmented
    \cup {"U+1FBF0","U+1FBF1","U+1FBF2","U+1FBF3","U+1FBF4",
          "U+1FBF5","U+1FBF6","U+1FBF7","U+1FBF8","U+1FBF9"}

AllDigits(s, from, to) == \A i \in from..to : s[i] \in Digits

\* C14 mutant: the pattern without its (010|070) group test
FullMatch_AnyPrefix(s) ==
    /\ Len(s) \in {12, 13}
    /\ AllDigits(s, 1, 3)
    /\ s[4] = "-"
    /\ LET m == Len(s) - 9 IN
         /\ AllDigits(s, 5, 4 + m)
         /\ s[5 + m] = "-"
         /\ AllDigits(s, 6 + m, Len(s))

\* ^(010|070)-\d{3,4}-\d{4}  anchored at both ends of s
FullMatch(s) ==
    /\ Len(s) \in {12, 13}
    /\ SubSeq(s, 1, 3) \in {<<"0","1","0">>, <<"0","7","0">>}
    /\ s[4] = "-"
    /\ LET m == Len(s) - 9 IN
         /\ AllDigits(s, 5, 4 + m)
         /\ s[5 + m] = "-"
         /\ AllDigits(s, 6 + m, Len(s))

\* re.match(r'^(010|070)-\d{3,4}-\d{4}$', value): $ also matches just
\* before one trailing newline.
NumberMatches(s) ==
    \/ FullMatch(s)
    \/ /\ Len(s) > 0
       /\ s[Len(s)] = "\n"
       /\ FullMatch(SubSeq(s, 1, Len(s) - 1))

(* ------------------------------- stores -------------------------------- *)
\* AuthOtp row.  otp_code is the secret the row was issued with.
OtpInterval == 1

NewOtp(number, auth_type, code, ts) ==
    [number |-> number, otp_code |-> code, auth_type |-> auth_type,
     timestamp |-> ts, otp_interval |-> OtpInterval,
     authenticated |-> FALSE, otp_register_code |-> PyNone]

\* AuthOtp.objects.filter(number=number).latest(): index of the most
\* recently created row for number, 0 when there is none (DoesNotExist).
LatestFor(O, number) ==
    LET S == {i \in 1..Len(O) : O[i].number = number}
    IN IF S = {} THEN 0 ELSE CHOOSE i \in S : \A j \in S : j <= i

\* AuthOtp.authenticate_code_by_otp_key(otp_code)
authenticate_code_by_otp_key(rec, code) == code = rec.otp_code

\* expiry of a row: timestamp + otp_interval
ExpiredAt(rec) == rec.timestamp + rec.otp_interval
Expired(rec, t) == t >= ExpiredAt(rec)

\* credential verifier: make_password / check_password
Hash(p) == <<"hash", p>>
check_password(p, h) == Hash(p) = h

NoLogin == -1

\* User row created by create_authenticated_user_from_request;
\* auth_otp records which AuthOtp row the creating signup consumed.
NewUser(attrs, idx) ==
    [phone_number |-> attrs.phone_number, email |-> attrs.email,
     password |-> Hash(attrs.password),
     last_login_datetime |-> NoLogin, last_login_type |-> "NULL",
     auth_otp |-> idx]

\* unique constraint of User.phone_number
PhoneTaken(U, number) == \E i \in 1..Len(U) : U[i].phone_number = number

(* ------------------------- last completed request ---------------------- *)
\* op / result of the request handled last; for a login, idx is the User
\* row it resolved and tok the User row the issued token pair belongs to.
Last(op, result, idx, tok) == [op |-> op, result |-> result, idx |-> idx, tok |-> tok]

(* ------------------------------- Init ---------------------------------- *)
NoOtp == NewOtp(<<>>, AuthNull, "", 0)
NoAttrs == [phone_number |-> <<>>, otp_register_code |-> "", email |-> "",
            password |-> ""]
\* a request slot: pc is "idle", or "verify" / "signup" for a request whose
\* is_valid() has passed and whose save() has not run yet.  attrs are the
\* validated fields, idx / auth_otp the row the request read and its
\* in-memory copy, auth_type / partial the auth_type field of a verifyCode
\* request and the partial argument of its serializer.
IdleReq == [pc |-> "idle", attrs |-> NoAttrs, idx |-> 0, auth_otp |-> NoOtp,
            auth_type |-> "ABSENT", partial |-> FALSE]

Init ==
    /\ otps = <<>>
    /\ users = <<>>
    /\ now = 0
    /\ last = Last("init", "none", 0, 0)
    /\ reqs = [r \in 1..MaxReqs |-> IdleReq]

(* ------------------------- AuthOtpSendSMSSerializer --------------------- *)
\* validate_number + save; code is the secret generated for the new row
RequestCode(number, auth_type, code) ==
    IF ~NumberMatches(number)
    THEN /\ last' = Last("requestCode", "invalid_number", 0, 0)
         /\ UNCHANGED <<otps, users, now, reqs>>
    ELSE LET at == IF auth_type = Absent THEN DefaultAuthType ELSE auth_type
             rec == NewOtp(number, at, code, now)
         IN /\ otps' = Append(otps, rec)
            /\ last' = Last("requestCode", "ok", 0, 0)
            /\ UNCHANGED <<users, now, reqs>>

(* ------------------------------ request slots -------------------------- *)
\* a new two-step request takes the lowest idle slot
FreeSlot(r) ==
    /\ reqs[r].pc = "idle"
    /\ \A q \in 1..(r - 1) : reqs[q].pc # "idle"

(* ------------------------ AuthOtpVerifyCodeSerializer ------------------- *)
\* the partial argument the view gives AuthOtpVerifyCodeSerializer: the
\* serializer is built non-partial, so that an omitted auth_type takes the
\* field default.
SerializerPartial == FALSE

\* whether is_valid() calls validate_auth_type: on the field's value, or on
\* its default when the request omits it; a partial serializer skips the
\* validator of an omitted field and leaves it out of validated_data.
AuthTypeValidated(partial, value) == ~partial \/ value # Absent

\* validate_auth_type: raises unless the instance's auth_type is the
\* requested (or default) one; it has no return statement, so the
\* validated auth_type is None.
ValidatedAuthType(value) == AuthNull

\* C1 mutant: save() without validated_data.update({"otp_register_code": ...})
VerifyUpdate_NoCode(rec, number, code, auth_type, partial) ==
    [rec EXCEPT !.number = number,
                !.auth_type = IF AuthTypeValidated(partial, auth_type)
                              THEN ValidatedAuthType(auth_type) ELSE @]

\* ModelSerializer.update(instance, validated_data) of save(): every
\* validated field is set on the in-memory instance, which is then saved
\* whole.
VerifyUpdate(rec, number, code, auth_type, partial) ==
    [rec EXCEPT !.number = number,
                !.auth_type = IF AuthTypeValidated(partial, auth_type)
                              THEN ValidatedAuthType(auth_type) ELSE @,
                !.otp_register_code = PyStr(code)]

\* C16 mutant: `default_auth_type or value`, the operands exchanged
RequestedAuthType_DefaultFirst(value) == DefaultAuthType

\* auth_type = value or default_auth_type, where value is the field's
\* validated value: the field default when the request omits auth_type
RequestedAuthType(value) == IF value = Absent THEN DefaultAuthType ELSE value

VerifyAttrs(number, code) ==
    [phone_number |-> number, otp_register_code |-> code, email |-> "",
     password |-> ""]

\* the serializer is built on the latest row of the number (None when there
\* is none) and is_valid() runs: validate_auth_type where the field is
\* validated, then validate()
VerifyValidate(r, number, code, auth_type, partial) ==
    LET idx == LatestFor(otps, number)
        at == RequestedAuthType(auth_type)
        fail(result) == /\ last' = Last("verifyCode", result, 0, 0)
                        /\ UNCHANGED reqs
    IN /\ FreeSlot(r)
       /\ UNCHANGED <<otps, users, now>>
       /\ IF AuthTypeValidated(partial, auth_type) /\ idx = 0
          THEN \* self.instance is None: self.instance.auth_type raises
               fail("AttributeError")
          ELSE IF AuthTypeValidated(partial, auth_type) /\ otps[idx].auth_type # at
          THEN fail("invalid_auth_type")
          ELSE IF idx = 0
          THEN \* validate(): `if not self.instance`
               fail("invalid_number")
          ELSE /\ reqs' = [reqs EXCEPT ![r] =
                              [pc |-> "verify", attrs |-> VerifyAttrs(number, code),
                               idx |-> idx, auth_otp |-> otps[idx],
                               auth_type |-> auth_type, partial |-> partial]]
               /\ last' = Last("verifyCode.validate", "ok", 0, 0)

\* save(): the code is checked against the instance and the updated
\* instance is written over the row
VerifySave(r) ==
    LET q == reqs[r]
    IN /\ q.pc = "verify"
       /\ UNCHANGED <<users, now>>
       /\ reqs' = [reqs EXCEPT ![r] = IdleReq]
       /\ IF ~authenticate_code_by_otp_key(q.auth_otp, q.attrs.otp_register_code)
          THEN /\ last' = Last("verifyCode", "invalid_code", 0, 0)
               /\ UNCHANGED otps
          ELSE /\ otps' = [otps EXCEPT ![q.idx] =
                              VerifyUpdate(q.auth_otp, q.attrs.phone_number,
                                           q.attrs.otp_register_code,
                                           q.auth_type, q.partial)]
               /\ last' = Last("verifyCode", "ok", 0, 0)

(* ---------------------------- SignupSerializer -------------------------- *)
\* the three conditions of validate(): a latest row exists, its
\* otp_register_code equals the submitted one as strings, and it is not
\* authenticated.
SignupEligible(O, attrs) ==
    LET idx == LatestFor(O, attrs.phone_number)
    IN /\ idx # 0
       /\ str(O[idx].otp_register_code) = attrs.otp_register_code
       /\ O[idx].authenticated = FALSE

\* C10 mutant: consuming the row also clears its otp_register_code
SignupFlip_ClearsCode(rec) ==
    [rec EXCEPT !.authenticated = TRUE, !.otp_register_code = PyNone]

\* the row save() writes back: the instance read by validate() with
\* authenticated set.
SignupFlip(rec) == [rec EXCEPT !.authenticated = TRUE]

\* save(): one transaction.  Either the user is created and the row is
\* saved, or the create raises IntegrityError on a taken phone number and
\* the transaction leaves nothing behind.
SignupSave(attrs, idx, rec, result) ==
    IF PhoneTaken(users, attrs.phone_number)
    THEN /\ result = "IntegrityError"
         /\ UNCHANGED <<otps, users>>
    ELSE /\ result = "ok"
         /\ users' = Append(users, NewUser(attrs, idx))
         /\ otps' = [otps EXCEPT ![idx] = SignupFlip(rec)]

SignupResults == {"ok", "IntegrityError", "invalid_auth_otp_data"}

\* is_valid(): validate() looks the latest row up and keeps it as
\* self.auth_otp
ConcValidate(r, attrs) ==
    LET idx == LatestFor(otps, attrs.phone_number)
    IN /\ FreeSlot(r)
       /\ UNCHANGED <<otps, users, now>>
       /\ IF ~SignupEligible(otps, attrs)
          THEN /\ last' = Last("signup", "invalid_auth_otp_data", 0, 0)
               /\ UNCHANGED reqs
          ELSE /\ reqs' = [reqs EXCEPT ![r] =
                              [pc |-> "signup", attrs |-> attrs, idx |-> idx,
                               auth_otp |-> otps[idx],
                               auth_type |-> Absent, partial |-> FALSE]]
               /\ last' = Last("signup.validate", "ok", 0, 0)

\* save() of a request whose is_valid() has passed
ConcSave(r) ==
    /\ reqs[r].pc = "signup"
    /\ UNCHANGED now
    /\ reqs' = [reqs EXCEPT ![r] = IdleReq]
    /\ \E result \in SignupResults :
          /\ SignupSave(reqs[r].attrs, reqs[r].idx, reqs[r].auth_otp, result)
          /\ last' = Last("signup", result, 0, 0)

(* ---------------------------- PasswordSerializer ------------------------ *)
\* the validated fields validate() receives
ResetAttrs(number, otp_code, new_passwd) ==
    [number |-> number, otp_code |-> otp_code, new_passwd |-> new_passwd]

HasKey(attrs, k) == k \in DOMAIN attrs

UserByPhone(U, number) ==
    LET S == {i \in 1..Len(U) : U[i].phone_number = number}
    IN IF S = {} THEN 0 ELSE CHOOSE i \in S : TRUE

\* C17 mutant: validate() marks the row it looked up as consumed, as
\* SignupSerializer.save does
ResetPasswordOtps_Flips(O, idx) ==
    IF idx = 0 THEN O ELSE [O EXCEPT ![idx].authenticated = TRUE]

\* the AuthOtp rows after the request: validate() only reads the latest
\* row into a local, and save() writes the user alone
ResetPasswordOtps(O, idx) == O

\* validate_number, validate and save
ResetPassword(number, otp_code, new_passwd) ==
    LET attrs == ResetAttrs(number, otp_code, new_passwd)
        idx == LatestFor(otps, number)
        u == UserByPhone(users, number)
        done(result) == last' = Last("resetPassword", result, 0, 0)
    IN /\ UNCHANGED <<now, reqs>>
       /\ otps' = ResetPasswordOtps(otps, IF NumberMatches(number) THEN idx ELSE 0)
       /\ IF ~NumberMatches(number)
          THEN done("invalid_number") /\ UNCHANGED users
          ELSE IF idx = 0
          THEN done("invalid_auth_otp_data") /\ UNCHANGED users
          ELSE IF ~HasKey(attrs, "otp_register_code")
          THEN \* attrs["otp_register_code"]: no such validated field
               done("KeyError") /\ UNCHANGED users
          ELSE IF \/ str(otps[idx].otp_register_code) # attrs["otp_register_code"]
                  \/ otps[idx].authenticated # FALSE
          THEN done("invalid_auth_otp_data") /\ UNCHANGED users
          ELSE IF u = 0
          THEN done("invalid_phone_number") /\ UNCHANGED users
          ELSE /\ users' = [users EXCEPT ![u].password = Hash(new_passwd)]
               /\ done("ok")

(* ------------------------------ LoginSerializer ------------------------- *)
\* attrs[login_type] / the User column of the same name
LoginField(login_type, x) ==
    IF login_type = "email" THEN x.email ELSE x.phone_number

\* TokenObtainPairSerializer.validate(attrs): authenticates the USERNAME_FIELD
\* (email) with the password and keeps the account as self.user; 0 when no
\* account authenticates, -1 when the lookup is ambiguous.
TokenUser(U, attrs) ==
    LET S == {i \in 1..Len(U) : U[i].email = attrs.email}
    IN IF S = {} THEN 0
       ELSE IF Cardinality(S) > 1 THEN -1
       ELSE LET i == CHOOSE j \in S : TRUE
            IN IF check_password(attrs.password, U[i].password) THEN i ELSE 0

\* SIMPLE_JWT_UPDATE_LOGIN_SETTING
UpdateLoginSetting == TRUE

\* the partial update of validate(): last_login_type is assigned the
\* field's declared default, not the login_type of the request.
LoginStamp(u, login_type, t) ==
    [u EXCEPT !.last_login_datetime = t, !.last_login_type = DefaultLoginType]

Login(attrs) ==
    LET login_type == IF attrs.login_type = Absent THEN DefaultLoginType
                      ELSE attrs.login_type
        M == {i \in 1..Len(users) :
                LoginField(login_type, users[i]) = LoginField(login_type, attrs)}
        fail(result) == last' = Last("login", result, 0, 0) /\ UNCHANGED users
    IN /\ UNCHANGED <<otps, now, reqs>>
       /\ IF M = {}
          THEN fail("no_exist_user")
          ELSE IF Cardinality(M) > 1
          THEN fail("MultipleObjectsReturned")
          ELSE LET u == CHOOSE i \in M : TRUE
                   tu == TokenUser(users, attrs)
               IN IF ~check_password(attrs.password, users[u].password)
                  THEN fail("wrong_password")
                  ELSE IF tu = -1
                  THEN fail("MultipleObjectsReturned")
                  ELSE IF tu = 0
                  THEN fail("no_active_account")
                  ELSE /\ last' = Last("login", "ok", u, tu)
                       /\ users' = IF UpdateLoginSetting
                                   THEN [users EXCEPT
                                           ![u] = LoginStamp(@, login_type, now)]
                                   ELSE users

(* ------------------------------- clock --------------------------------- *)
Tick ==
    /\ now' = now + 1
    /\ UNCHANGED <<otps, users, last, reqs>>

(* ---------------------------- specifications --------------------------- *)
AuthTypeInputs == AuthTypes \cup {Absent}

\* Spec: the OTP lifecycle with one account profile per phone number
SignupAttrs ==
    [phone_number : ValidNumbers, otp_register_code : SubmittedCodes,
     email : {"a@x.io"}, password : {"pw1"}]

\* the store is explored up to MaxOtps rows and the clock up to MaxTime;
\* rows are issued with one secret
Next ==
    \/ \E n \in ValidNumbers, a \in AuthTypeInputs :
          Len(otps) < MaxOtps /\ RequestCode(n, a, "111111")
    \/ \E n \in Numbers \ ValidNumbers :
          /\ NumberMatches(n) => Len(otps) < MaxOtps
          /\ RequestCode(n, Absent, "111111")
    \/ \E n \in ValidNumbers, c \in OtpCodes, a \in AuthTypeInputs :
          VerifyValidate(1, n, c, a, SerializerPartial)
    \/ VerifySave(1)
    \/ \E attrs \in SignupAttrs : ConcValidate(1, attrs)
    \/ ConcSave(1)
    \/ \E n \in Numbers, c \in SubmittedCodes, p \in {"pw2"} :
          ResetPassword(n, c, p)

Spec == Init /\ [][Next]_vars

\* SpecTime: the OTP requests of one number with the clock advancing
\* between them
TimeSignupAttrs ==
    [phone_number : {NumA}, otp_register_code : SubmittedCodes,
     email : {"a@x.io"}, password : {"pw1"}]

NextTime ==
    \/ \E a \in AuthTypeInputs :
          Len(otps) < MaxOtps /\ RequestCode(NumA, a, "111111")
    \/ \E c \in SubmittedCodes, a \in AuthTypeInputs :
          VerifyValidate(1, NumA, c, a, SerializerPartial)
    \/ VerifySave(1)
    \/ \E attrs \in TimeSignupAttrs : ConcValidate(1, attrs)
    \/ ConcSave(1)
    \/ now < MaxTime /\ Tick

SpecTime == Init /\ [][NextTime]_vars

\* SpecLogin: accounts with different e-mails and passwords, and logins
\* over every combination of e-mail, phone number, password and login_type
LoginSignupAttrs ==
    [phone_number : ValidNumbers, otp_register_code : {"111111"},
     email : Emails, password : Passwords]

FullLoginAttrs ==
    [email : Emails, phone_number : ValidNumbers, password : Passwords,
     login_type : LoginTypes \cup {Absent}]

NextLogin ==
    \/ \E n \in ValidNumbers :
          Len(otps) < MaxOtps /\ RequestCode(n, Absent, "111111")
    \/ \E n \in ValidNumbers :
          VerifyValidate(1, n, "111111", Absent, SerializerPartial)
    \/ VerifySave(1)
    \/ \E attrs \in LoginSignupAttrs : ConcValidate(1, attrs)
    \/ ConcSave(1)
    \/ \E attrs \in FullLoginAttrs : Login(attrs)
    \/ now < MaxTime /\ Tick

SpecLogin == Init /\ [][NextLogin]_vars

\* SpecConc: verifyCode and signup requests whose is_valid() and save()
\* steps interleave with each other and with requestCode
ConcSignupAttrs ==
    [phone_number : ValidNumbers, otp_register_code : {"111111"},
     email : {"a@x.io"}, password : {"pw1"}]

NextConc ==
    \/ \E n \in ValidNumbers :
          Len(otps) < MaxOtps /\ RequestCode(n, Absent, "111111")
    \/ \E r \in 1..MaxReqs, n \in ValidNumbers :
          VerifyValidate(r, n, "111111", Absent, SerializerPartial)
    \/ \E r \in 1..MaxReqs : VerifySave(r)
    \/ \E r \in 1..MaxReqs, attrs \in ConcSignupAttrs : ConcValidate(r, attrs)
    \/ \E r \in 1..MaxReqs : ConcSave(r)

SpecConc == Init /\ [][NextConc]_vars

(* ------------------------------- claims -------------------------------- *)
\* row i is the most recently created row of number n
IsLatest(O, i, n) ==
    /\ i \in 1..Len(O)
    /\ O[i].number = n
    /\ \A j \in (i + 1)..Len(O) : O[j].number # n

\* the request completed last was a verifyCode / signup / resetPassword ...
VerifiedOk == last.op = "verifyCode" /\ last.result = "ok"
WasSignup == last.op = "signup"
SignedUpOk == last.op = "signup" /\ last.result = "ok"
ResetOk == last.op = "resetPassword" /\ last.result = "ok"
WasRequest == last.op = "requestCode"
WasVerify == last.op = "verifyCode"
WasReset == last.op = "resetPassword"
WasLogin == last.op = "login"
LoginOk == last.op = "login" /\ last.result = "ok"

Slots == 1..MaxReqs
\* the step is the is_valid() that put a request into slot r / the save()
\* of the verifyCode / signup request in slot r
Accepted(r) == reqs[r].pc = "idle" /\ reqs'[r].pc # "idle"
VerifySaved(r) == reqs[r].pc = "verify" /\ reqs'[r].pc = "idle"
SignupSaved(r) == reqs[r].pc = "signup" /\ reqs'[r].pc = "idle"

\* C1 as stated: a successful verifyCode leaves the row it verified with
\* authenticated = true and otp_register_code = the submitted code.
C1_VerifySetsAuthenticated ==
    [][\A r \in Slots :
          (VerifiedOk' /\ VerifySaved(r))
          => /\ otps'[reqs[r].idx].authenticated = TRUE
             /\ otps'[reqs[r].idx].otp_register_code =
                   PyStr(reqs[r].attrs.otp_register_code)]_vars

\* C1 amended: a successful verifyCode persists the submitted code as
\* otp_register_code of the row it verified; it does not set authenticated:
\* the flag is written back as the request read it.
C1_VerifyRecordsCode ==
    [][\A r \in Slots :
          (VerifiedOk' /\ VerifySaved(r))
          => /\ otps'[reqs[r].idx].otp_register_code =
                   PyStr(reqs[r].attrs.otp_register_code)
             /\ otps'[reqs[r].idx].authenticated =
                   reqs[r].auth_otp.authenticated]_vars

C1_Witness ==
    /\ last.op = "verifyCode" /\ last.result = "ok"
    /\ Len(otps) = 1
    /\ otps[1].otp_register_code = PyStr(otps[1].otp_code)
    /\ otps[1].authenticated = FALSE

\* C2 as stated: a verifyCode against a row on which verifyCode has already
\* succeeded (its otp_register_code is set) fails with AlreadyConsumed and
\* changes nothing.
C2_SecondVerifyAlreadyConsumed ==
    [][\A r \in Slots :
          /\ \A n \in ValidNumbers, c \in OtpCodes, a \in AuthTypeInputs :
                (/\ \E i \in 1..Len(otps) :
                       IsLatest(otps, i, n) /\ otps[i].otp_register_code # PyNone
                 /\ VerifyValidate(r, n, c, a, SerializerPartial))
                => (last'.result = "AlreadyConsumed" /\ otps' = otps)
          /\ (VerifySaved(r) /\ otps[reqs[r].idx].otp_register_code # PyNone)
             => (last'.result = "AlreadyConsumed" /\ otps' = otps)]_vars

\* C3 as stated: of two signup requests that validated against the same
\* row, one succeeds and the other, saving after the row has been consumed,
\* fails with invalid_auth_otp_data; no second account is created.
C3_ConcurrentSignupOneWinner ==
    [][\A r \in Slots :
          (SignupSaved(r) /\ otps[reqs[r].idx].authenticated = TRUE)
          => (last'.result = "invalid_auth_otp_data" /\ users' = users)]_vars

\* C4 as stated: in every state, a row is authenticated exactly when the
\* account of the signup that consumed it exists.
C4_SignupAtomic ==
    \A i \in 1..Len(otps) :
       otps[i].authenticated <=> (\E u \in 1..Len(users) : users[u].auth_otp = i)

\* the three conditions of C5 on the latest row of the request's number
C5_Eligible(O, attrs) ==
    \E i \in 1..Len(O) :
       /\ IsLatest(O, i, attrs.phone_number)
       /\ str(O[i].otp_register_code) = attrs.otp_register_code
       /\ O[i].authenticated = FALSE

\* C5 as stated: a signup fails with invalid_auth_otp_data and changes no
\* account and no row unless the latest row of its phone number exists, has
\* the submitted otp_register_code (as strings) and is not authenticated --
\* when the request is validated and when it is saved.
C5_SignupRequiresEligibleOtp ==
    [][\A r \in Slots :
          /\ \A attrs \in SignupAttrs :
                (WasSignup' /\ ~C5_Eligible(otps, attrs) /\ ConcValidate(r, attrs))
                => /\ last'.result = "invalid_auth_otp_data"
                   /\ users' = users /\ otps' = otps
          /\ (SignupSaved(r) /\ ~C5_Eligible(otps, reqs[r].attrs))
             => /\ last'.result = "invalid_auth_otp_data"
                /\ users' = users /\ otps' = otps]_vars

\* C6 as stated: while the latest row of a number is one a signup has
\* consumed, every signup and every resetPassword for the number fails with
\* invalid_auth_otp_data.
C6_ConsumedRowRejectsAll ==
    [][\A n \in ValidNumbers :
          (\E i \in 1..Len(otps) :
              /\ IsLatest(otps, i, n)
              /\ otps[i].authenticated = TRUE
              /\ \E u \in 1..Len(users) : users[u].auth_otp = i)
          => /\ \A r \in Slots, attrs \in SignupAttrs :
                  (attrs.phone_number = n /\ ConcValidate(r, attrs))
                  => last'.result = "invalid_auth_otp_data"
             /\ \A c \in SubmittedCodes, p \in Passwords :
                  ResetPassword(n, c, p)
                  => last'.result = "invalid_auth_otp_data"]_vars

\* C7 as stated: a signup whose row is the latest of its phone number and
\* is expired (now >= timestamp + otp_interval) creates no account.
C7_NoSignupOnExpiredOtp ==
    [][\A r \in Slots :
          (/\ SignupSaved(r)
           /\ IsLatest(otps, reqs[r].idx, reqs[r].attrs.phone_number)
           /\ Expired(otps[reqs[r].idx], now))
          => users' = users]_vars

\* C8 as stated: latest wins.  Only the latest row of a number is ever
\* changed, no row is removed, a signup that succeeds has consumed the
\* latest row of its phone number, and a resetPassword that succeeds has
\* passed its checks on the latest row.
C8_LatestWins ==
    [][/\ Len(otps') >= Len(otps)
       /\ \A i \in 1..Len(otps) :
             otps'[i] # otps[i] => IsLatest(otps, i, otps[i].number)
       /\ \A r \in Slots :
             (SignupSaved(r) /\ SignedUpOk')
             => IsLatest(otps, reqs[r].idx, reqs[r].attrs.phone_number)
       /\ \A n \in Numbers, c \in SubmittedCodes, p \in Passwords :
             (ResetOk' /\ ResetPassword(n, c, p))
             => \E i \in 1..Len(otps) :
                   /\ IsLatest(otps, i, n)
                   /\ str(otps[i].otp_register_code) = c]_vars

\* C9 as stated: no request turns a row's authenticated flag from true back
\* to false, so the flag changes at most once, from false to true.
C9_AuthenticatedNeverReset ==
    [][\A i \in 1..Len(otps) :
          otps[i].authenticated = TRUE => otps'[i].authenticated = TRUE]_vars

\* C10 as stated: a row whose otp_register_code is set is authenticated.
C10_ConsumedImpliesAuthenticated ==
    \A i \in 1..Len(otps) :
       otps[i].otp_register_code # PyNone => otps[i].authenticated = TRUE

\* C10 amended: a row is created with otp_register_code unset, and the
\* field changes only in the save() of a successful verifyCode of that row,
\* to the code that request presented, or in the save() of a signup, to the
\* value that request read; the row need not be authenticated.
C10_ConsumedCodeIsPresentedCode ==
    [][/\ \A i \in (Len(otps) + 1)..Len(otps') :
             otps'[i].otp_register_code = PyNone
       /\ \A i \in 1..Len(otps) :
             otps'[i].otp_register_code # otps[i].otp_register_code
             => \E r \in Slots :
                   /\ reqs[r].idx = i
                   /\ \/ /\ VerifySaved(r) /\ VerifiedOk'
                         /\ otps'[i].otp_register_code =
                               PyStr(reqs[r].attrs.otp_register_code)
                      \/ /\ SignupSaved(r) /\ SignedUpOk'
                         /\ otps'[i].otp_register_code =
                               reqs[r].auth_otp.otp_register_code]_vars

C10_Witness ==
    /\ Len(otps) = 2
    /\ otps[1].otp_register_code # PyNone /\ otps[1].authenticated = TRUE
    /\ otps[2].otp_register_code # PyNone /\ otps[2].authenticated = FALSE

\* C11 as stated: a resetPassword for a well-formed number whose latest
\* row holds the submitted code as otp_register_code and is not
\* authenticated, and whose account exists, succeeds and stores the hash of
\* the new password on that account.
C11_ResetPasswordSucceeds ==
    [][\A n \in ValidNumbers, c \in SubmittedCodes, p \in Passwords :
          (/\ WasReset'
           /\ \E i \in 1..Len(otps) :
                 /\ IsLatest(otps, i, n)
                 /\ otps[i].otp_register_code = PyStr(c)
                 /\ otps[i].authenticated = FALSE
           /\ \E u \in 1..Len(users) : users[u].phone_number = n
           /\ ResetPassword(n, c, p))
          => /\ last'.result = "ok"
             /\ \E u \in 1..Len(users) :
                   /\ users[u].phone_number = n
                   /\ users'[u].password = Hash(p)]_vars

\* C12 as stated: a login with login_type = phone_number fails with
\* no_exist_user when no account has the number, with wrong_password when
\* the account's password does not verify, and otherwise succeeds with a
\* token pair and stamps the account's last_login_datetime; a failed login
\* changes no account.
C12_PhoneLoginOutcome ==
    [][\A attrs \in FullLoginAttrs :
          (WasLogin' /\ attrs.login_type = "phone_number" /\ Login(attrs))
          => LET M == {u \in 1..Len(users) :
                          users[u].phone_number = attrs.phone_number}
             IN /\ last'.result # "ok" => users' = users
                /\ M = {} => last'.result = "no_exist_user"
                /\ \A u \in M :
                      IF users[u].password # Hash(attrs.password)
                      THEN last'.result = "wrong_password"
                      ELSE /\ last'.result = "ok"
                           /\ last'.tok # 0
                           /\ users'[u].last_login_datetime = now]_vars

\* C13 as stated: after a successful login the account's last_login_type is
\* the login_type the request used (email when it gave none).
C13_LastLoginStrategy ==
    [][\A attrs \in FullLoginAttrs :
          (LoginOk' /\ Login(attrs))
          => users'[last'.idx].last_login_type =
                (IF attrs.login_type = Absent THEN "email" ELSE attrs.login_type)]_vars

\* the numbers of the model that do not match ^(010|070)-\d{3,4}-\d{4}$
BadNumbers == {NumBadPrefix, NumBadGroup}

\* C14: for a malformed number, requestCode and resetPassword fail with
\* invalid_number whatever the rows and accounts are, and change neither:
\* no requestCode or resetPassword step with another result, or with a
\* changed row or account, is a step for a malformed number.
C14_MalformedNumberRejected ==
    [][((WasRequest' \/ WasReset')
        /\ ~(last'.result = "invalid_number" /\ otps' = otps /\ users' = users))
       => \A n \in BadNumbers :
             /\ \A a \in AuthTypeInputs, c \in OtpCodes : ~RequestCode(n, a, c)
             /\ \A c \in SubmittedCodes, p \in Passwords :
                   ~ResetPassword(n, c, p)]_vars

C14_Witness ==
    /\ last.op = "resetPassword" /\ last.result = "invalid_number"
    /\ Len(otps) >= 1
    /\ Len(users) >= 1

\* C15 as stated: a verifyCode for a number without any row fails with
\* invalid_number, whatever auth_type it carries.
C15_VerifyWithoutOtp ==
    [][\A r \in Slots, n \in ValidNumbers, c \in OtpCodes,
          a \in AuthTypeInputs :
          (/\ WasVerify'
           /\ \A i \in 1..Len(otps) : otps[i].number # n
           /\ VerifyValidate(r, n, c, a, SerializerPartial))
          => last'.result = "invalid_number"]_vars

\* the auth_type a verifyCode request asks for: EMAIL when it gives none
C16_Requested(a) == IF a = Absent THEN "EMAIL" ELSE a

\* C16: a verifyCode whose requested auth_type (EMAIL when omitted) differs
\* from that of the latest row of its number fails in is_valid() with
\* invalid_auth_type; one whose auth_type agrees passes is_valid(), and its
\* save() fails with invalid_code when the code is not the row's; both
\* failures leave every row unchanged.
C16_VerifyFailures ==
    [][\A r \in Slots :
          /\ \A n \in ValidNumbers, c \in OtpCodes, a \in AuthTypeInputs :
                \A i \in 1..Len(otps) :
                   (/\ IsLatest(otps, i, n)
                    /\ VerifyValidate(r, n, c, a, SerializerPartial))
                   => IF otps[i].auth_type # C16_Requested(a)
                      THEN /\ last' = Last("verifyCode", "invalid_auth_type", 0, 0)
                           /\ otps' = otps
                      ELSE /\ Accepted(r)
                           /\ reqs'[r].idx = i
                           /\ otps' = otps
          /\ (/\ VerifySaved(r)
              /\ otps[reqs[r].idx].otp_code # reqs[r].attrs.otp_register_code)
             => (last' = Last("verifyCode", "invalid_code", 0, 0)
                 /\ otps' = otps)]_vars

\* a wrong code was refused on a PHONE row that stays unverified
C16_Witness ==
    /\ last.op = "verifyCode" /\ last.result = "invalid_code"
    /\ Len(otps) = 1
    /\ otps[1].auth_type = "PHONE"
    /\ otps[1].otp_register_code = PyNone

\* C17: a resetPassword, whatever its outcome, leaves every row as it was,
\* so a signup that was eligible before it is eligible after it.
C17_ResetLeavesOtps ==
    [][WasReset'
       => /\ otps' = otps
          /\ \A attrs \in SignupAttrs :
                SignupEligible(otps', attrs) <=> SignupEligible(otps, attrs)]_vars

C17_Witness ==
    /\ last.op = "resetPassword" /\ last.result # "invalid_number"
    /\ Len(otps) = 1
    /\ otps[1].otp_register_code # PyNone
    /\ otps[1].authenticated = FALSE

\* C18 as stated: a signup whose row is the latest of its number and was
\* never verified (its otp_register_code is unset) fails and creates no
\* account, whatever code it submits.
C18_NoSignupWithoutVerify ==
    [][\A r \in Slots :
          (/\ SignupSaved(r)
           /\ IsLatest(otps, reqs[r].idx, reqs[r].attrs.phone_number)
           /\ reqs[r].auth_otp.otp_register_code = PyNone
           /\ otps[reqs[r].idx].otp_register_code = PyNone)
          => (last'.result = "invalid_auth_otp_data" /\ users' = users)]_vars

\* C19 as stated: a successful verifyCode leaves number, otp_code, auth_type
\* and timestamp of every row as they were.
C19_VerifyFrame ==
    [][\A r \in Slots :
          (VerifiedOk' /\ VerifySaved(r))
          => /\ Len(otps') = Len(otps)
             /\ \A i \in 1..Len(otps) :
                   /\ otps'[i].number = otps[i].number
                   /\ otps'[i].otp_code = otps[i].otp_code
                   /\ otps'[i].auth_type = otps[i].auth_type
                   /\ otps'[i].timestamp = otps[i].timestamp]_vars

\* C20 as stated: a successful login issues its token pair for the account
\* it resolved by the login_type's identifier and returns as user.
C20_TokenForResolvedUser ==
    LoginOk => last.tok = last.idx

====
